---- MODULE Spec2Model ----
(***************************************************************************)
(* Model of producer_put_events.py: a script that publishes three sample   *)
(* events (OrderCreated, PaymentFailed, ShipmentCreated) to an EventBridge *)
(* bus, one blocking put_events call per event.                            *)
(*                                                                         *)
(* Python str values that are serialized or inspected character by         *)
(* character (the order id, the detail payloads, the JSON text) are        *)
(* sequences of one-character strings.  Source, detail type, bus name and  *)
(* exception names are passed through untouched by the code and are plain  *)
(* TLA+ strings.                                                           *)
(***************************************************************************)
EXTENDS Integers, Sequences, FiniteSets, TLC

(***************************************************************************)
(* Bounds of the model.                                                    *)
(***************************************************************************)
\* Number of distinct event ids the service may assign.
NumEventIds == 2
\* Number of script runs (separate processes) followed by SpecRuns.
MaxRuns == 2

(***************************************************************************)
(* Configuration (lines 7-8).                                              *)
(***************************************************************************)
BUS_NAME == "ecom-bus"
REGION == "us-east-1"

(***************************************************************************)
(* Characters.                                                             *)
(***************************************************************************)
Digits == <<"0", "1", "2", "3", "4", "5", "6", "7", "8", "9">>
LowerAlpha == <<"a", "b", "c", "d", "e", "f", "g", "h", "i", "j", "k", "l", "m",
                "n", "o", "p", "q", "r", "s", "t", "u", "v", "w", "x", "y", "z">>
UpperAlpha == <<"A", "B", "C", "D", "E", "F", "G", "H", "I", "J", "K", "L", "M",
                "N", "O", "P", "Q", "R", "S", "T", "U", "V", "W", "X", "Y", "Z">>
\* The digits of int.__format__(n, "x"), as UUID.hex uses them.
HexDigits == <<"0", "1", "2", "3", "4", "5", "6", "7", "8", "9",
               "a", "b", "c", "d", "e", "f">>
UpperHexChars == {"0", "1", "2", "3", "4", "5", "6", "7", "8", "9",
                  "A", "B", "C", "D", "E", "F"}

IndexOf(c, alphabet) == CHOOSE i \in DOMAIN alphabet : alphabet[i] = c

IsIn(c, alphabet) == \E i \in DOMAIN alphabet : alphabet[i] = c

\* str.upper() without the case conversion: the characters as they are.
upper_identity(s) == s

\* str.upper(): every cased character is replaced by its uppercase form.
upper(s) ==
    [i \in DOMAIN s |->
        IF IsIn(s[i], LowerAlpha) THEN UpperAlpha[IndexOf(s[i], LowerAlpha)]
        ELSE s[i]]

(***************************************************************************)
(* uuid.uuid4(): a random 128-bit UUID, here its 32 nibbles.  Nibble 13 is *)
(* the version (4) and nibble 17 carries the variant (8..b); the others    *)
(* are random.  The random nibbles are drawn from seed pairs: odd          *)
(* positions take the first nibble of the pair, even positions the second. *)
(***************************************************************************)
UuidSeeds == {<<0, 9>>, <<10, 15>>, <<12, 3>>}

MakeUuid(seed) ==
    [i \in 1..32 |->
        IF i = 13 THEN 4
        ELSE IF i = 17 THEN 8 + (seed[1] % 4)
        ELSE IF i % 2 = 1 THEN seed[1] ELSE seed[2]]

Uuid4Values == {MakeUuid(seed) : seed \in UuidSeeds}

\* UUID.hex: 32 lowercase hexadecimal digits.
hex(u) == [i \in DOMAIN u |-> HexDigits[u[i] + 1]]

\* Length of the slice hex[:8] (lines 41, 68).
ID_LEN == 8

\* s[:n]
Slice(s, n) == SubSeq(s, 1, IF n < Len(s) THEN n ELSE Len(s))

\* f"ORD-{uuid.uuid4().hex[:8].upper()}" (line 41), for the UUID drawn.
make_order_id(u) == <<"O", "R", "D", "-">> \o upper(Slice(hex(u), ID_LEN))

\* f"TRK-{uuid.uuid4().hex[:8].upper()}" (line 68), for the UUID drawn.
make_tracking_id(u) == <<"T", "R", "K", "-">> \o upper(Slice(hex(u), ID_LEN))

(***************************************************************************)
(* Python values, as json sees them.  A dict keeps its insertion order: it *)
(* is a sequence of <<key, value>> pairs with str keys.  A float is the    *)
(* decimal num / 10^scale with scale >= 1, normalized as repr() prints it  *)
(* (no trailing zero after the first fractional digit).  PyObj stands for  *)
(* a value json cannot serialize (a set, a datetime, ...).                 *)
(***************************************************************************)
PyStr(s) == [t |-> "str", v |-> s]
PyInt(n) == [t |-> "int", v |-> n]
PyList(xs) == [t |-> "list", v |-> xs]
PyDict(kvs) == [t |-> "dict", v |-> kvs]
PyNone == [t |-> "none", v |-> 0]
PyObj == [t |-> "obj", v |-> 0]

RECURSIVE NormFloat(_, _)
NormFloat(num, scale) ==
    IF scale > 1 /\ num % 10 = 0 THEN NormFloat(num \div 10, scale - 1)
    ELSE [t |-> "float", v |-> 0, num |-> num, scale |-> scale]

\* The float a decimal literal with `scale` fractional digits denotes.
PyFloat(num, scale) == NormFloat(num, scale)

RECURSIVE Pow10(_)
Pow10(n) == IF n = 0 THEN 1 ELSE 10 * Pow10(n - 1)

\* Equality of Python values (==), by type and then by content.
RECURSIVE PyEq(_, _)
PyEq(a, b) ==
    /\ a.t = b.t
    /\ CASE a.t = "str" -> a.v = b.v
         [] a.t = "int" -> a.v = b.v
         [] a.t = "float" -> a.num = b.num /\ a.scale = b.scale
         [] a.t = "list" ->
                /\ Len(a.v) = Len(b.v)
                /\ \A i \in DOMAIN a.v : PyEq(a.v[i], b.v[i])
         [] a.t = "dict" ->
                /\ Len(a.v) = Len(b.v)
                /\ \A i \in DOMAIN a.v :
                      /\ a.v[i][1] = b.v[i][1]
                      /\ PyEq(a.v[i][2], b.v[i][2])
         [] OTHER -> TRUE

\* d[key] for a dict d that has the key.
dict_get(d, key) ==
    d.v[CHOOSE i \in DOMAIN d.v : d.v[i][1] = key][2]

dict_has(d, key) == \E i \in DOMAIN d.v : d.v[i][1] = key

(***************************************************************************)
(* json.dumps (line 21) with its defaults: item separator ", ", key        *)
(* separator ": ", strings in double quotes with the quote and the         *)
(* backslash escaped, insertion order of dict keys kept.                   *)
(***************************************************************************)
RECURSIVE Serializable(_)
Serializable(x) ==
    CASE x.t = "obj" -> FALSE
      [] x.t = "list" -> \A i \in DOMAIN x.v : Serializable(x.v[i])
      [] x.t = "dict" -> \A i \in DOMAIN x.v : Serializable(x.v[i][2])
      [] OTHER -> TRUE

RECURSIVE nat_repr(_)
nat_repr(n) ==
    IF n < 10 THEN <<Digits[n + 1]>>
    ELSE nat_repr(n \div 10) \o <<Digits[(n % 10) + 1]>>

\* int.__repr__
int_repr(n) == IF n < 0 THEN <<"-">> \o nat_repr(-n) ELSE nat_repr(n)

RECURSIVE PadZeros(_, _)
PadZeros(s, width) == IF Len(s) < width THEN PadZeros(<<"0">> \o s, width) ELSE s

\* A float written without its fractional part.
float_repr_truncated(x) == nat_repr(x.num \div Pow10(x.scale))

\* float.__repr__ for a non-negative float: integer part, ".", fraction.
float_repr(x) ==
    nat_repr(x.num \div Pow10(x.scale)) \o <<".">>
        \o PadZeros(nat_repr(x.num % Pow10(x.scale)), x.scale)

RECURSIVE escape(_)
escape(s) ==
    IF s = <<>> THEN <<>>
    ELSE (IF Head(s) = "\"" \/ Head(s) = "\\" THEN <<"\\", Head(s)>> ELSE <<Head(s)>>)
             \o escape(Tail(s))

encode_str(s) == <<"\"">> \o escape(s) \o <<"\"">>

RECURSIVE json_dumps(_)
RECURSIVE encode_items(_, _)
RECURSIVE encode_pairs(_, _)

encode_items(xs, i) ==
    IF i > Len(xs) THEN <<>>
    ELSE (IF i > 1 THEN <<",", " ">> ELSE <<>>) \o json_dumps(xs[i])
             \o encode_items(xs, i + 1)

encode_pairs(kvs, i) ==
    IF i > Len(kvs) THEN <<>>
    ELSE (IF i > 1 THEN <<",", " ">> ELSE <<>>) \o encode_str(kvs[i][1])
             \o <<":", " ">> \o json_dumps(kvs[i][2]) \o encode_pairs(kvs, i + 1)

json_dumps(x) ==
    CASE x.t = "str" -> encode_str(x.v)
      [] x.t = "int" -> int_repr(x.v)
      [] x.t = "float" -> float_repr(x)
      [] x.t = "none" -> <<"n", "u", "l", "l">>
      [] x.t = "list" -> <<"[">> \o encode_items(x.v, 1) \o <<"]">>
      [] x.t = "dict" -> <<"{">> \o encode_pairs(x.v, 1) \o <<"}">>

(***************************************************************************)
(* json.loads: the inverse the round trip is checked against.  A parse     *)
(* step returns [ok, val, pos]: whether the text at the position was       *)
(* valid, the value read and the position after it.                        *)
(***************************************************************************)
At(s, i) == IF i >= 1 /\ i <= Len(s) THEN s[i] ELSE "EOF"

ParseFail == [ok |-> FALSE, val |-> PyNone, pos |-> 0]

ParseOk(val, pos) == [ok |-> TRUE, val |-> val, pos |-> pos]

RECURSIVE SkipWs(_, _)
SkipWs(s, i) == IF At(s, i) = " " THEN SkipWs(s, i + 1) ELSE i

RECURSIVE ScanString(_, _, _)
ScanString(s, i, acc) ==
    CASE At(s, i) = "EOF" -> ParseFail
      [] At(s, i) = "\"" -> ParseOk(PyStr(acc), i + 1)
      [] At(s, i) = "\\" ->
            IF At(s, i + 1) = "\"" \/ At(s, i + 1) = "\\"
            THEN ScanString(s, i + 2, Append(acc, s[i + 1]))
            ELSE ParseFail
      [] OTHER -> ScanString(s, i + 1, Append(acc, s[i]))

\* [ok, n, len, pos]: the digits from position i on, their value and count.
RECURSIVE ScanDigits(_, _, _, _)
ScanDigits(s, i, n, len) ==
    IF IsIn(At(s, i), Digits)
    THEN ScanDigits(s, i + 1, 10 * n + (IndexOf(s[i], Digits) - 1), len + 1)
    ELSE [n |-> n, len |-> len, pos |-> i]

ParseNumber(s, i) ==
    LET neg == At(s, i) = "-"
        ip == ScanDigits(s, IF neg THEN i + 1 ELSE i, 0, 0)
    IN  IF ip.len = 0 THEN ParseFail
        ELSE IF At(s, ip.pos) = "."
        THEN LET fp == ScanDigits(s, ip.pos + 1, 0, 0)
             IN  IF fp.len = 0 \/ neg THEN ParseFail
                 ELSE ParseOk(PyFloat(ip.n * Pow10(fp.len) + fp.n, fp.len), fp.pos)
        ELSE ParseOk(PyInt(IF neg THEN -ip.n ELSE ip.n), ip.pos)

RECURSIVE ParseValue(_, _)
RECURSIVE ParseElements(_, _, _)
RECURSIVE ParseMembers(_, _, _)

\* The elements of an array, i at the first character of an element.
ParseElements(s, i, acc) ==
    LET r == ParseValue(s, i)
        j == SkipWs(s, r.pos)
    IN  IF ~r.ok THEN ParseFail
        ELSE IF At(s, j) = "," THEN ParseElements(s, SkipWs(s, j + 1), Append(acc, r.val))
        ELSE IF At(s, j) = "]" THEN ParseOk(PyList(Append(acc, r.val)), j + 1)
        ELSE ParseFail

\* The members of an object, i at the opening quote of a key.
ParseMembers(s, i, acc) ==
    IF At(s, i) # "\"" THEN ParseFail
    ELSE LET k == ScanString(s, i + 1, <<>>)
             c == SkipWs(s, k.pos)
             r == ParseValue(s, SkipWs(s, c + 1))
             j == SkipWs(s, r.pos)
         IN  IF ~k.ok \/ At(s, c) # ":" THEN ParseFail
             ELSE IF ~r.ok THEN ParseFail
             ELSE IF At(s, j) = ","
             THEN ParseMembers(s, SkipWs(s, j + 1), Append(acc, <<k.val.v, r.val>>))
             ELSE IF At(s, j) = "}"
             THEN ParseOk(PyDict(Append(acc, <<k.val.v, r.val>>)), j + 1)
             ELSE ParseFail

ParseValue(s, i) ==
    CASE At(s, i) = "{" ->
            IF At(s, SkipWs(s, i + 1)) = "}" THEN ParseOk(PyDict(<<>>), SkipWs(s, i + 1) + 1)
            ELSE ParseMembers(s, SkipWs(s, i + 1), <<>>)
      [] At(s, i) = "[" ->
            IF At(s, SkipWs(s, i + 1)) = "]" THEN ParseOk(PyList(<<>>), SkipWs(s, i + 1) + 1)
            ELSE ParseElements(s, SkipWs(s, i + 1), <<>>)
      [] At(s, i) = "\"" -> ScanString(s, i + 1, <<>>)
      [] At(s, i) = "n" ->
            IF SubSeq(s, i, i + 3) = <<"n", "u", "l", "l">> THEN ParseOk(PyNone, i + 4)
            ELSE ParseFail
      [] At(s, i) = "-" \/ IsIn(At(s, i), Digits) -> ParseNumber(s, i)
      [] OTHER -> ParseFail

\* json.loads(s): [ok, val]; ok is FALSE where json.loads raises JSONDecodeError.
json_loads(s) ==
    LET r == ParseValue(s, SkipWs(s, 1))
    IN  IF r.ok /\ SkipWs(s, r.pos) = Len(s) + 1 THEN r ELSE ParseFail

(***************************************************************************)
(* The three sample payloads of publish_sample_events.                     *)
(***************************************************************************)
K_orderId == <<"o", "r", "d", "e", "r", "I", "d">>
K_trackingId == <<"t", "r", "a", "c", "k", "i", "n", "g", "I", "d">>

\* order_detail (lines 46-52)
order_detail(oid) ==
    PyDict(<<
        <<K_orderId, PyStr(oid)>>,
        <<<<"c", "u", "s", "t", "o", "m", "e", "r", "I", "d">>,
          PyStr(<<"C", "-", "5", "6", "7", "8">>)>>,
        <<<<"v", "a", "l", "u", "e">>, PyFloat(14990, 2)>>,
        <<<<"c", "u", "r", "r", "e", "n", "c", "y">>, PyStr(<<"U", "S", "D">>)>>,
        <<<<"i", "t", "e", "m", "s">>,
          PyList(<<PyDict(<<
              <<<<"p", "r", "o", "d", "u", "c", "t", "I", "d">>,
                PyStr(<<"P", "-", "1", "2", "3">>)>>,
              <<<<"q", "u", "a", "n", "t", "i", "t", "y">>, PyInt(2)>> >>)>>)>> >>)

\* payment_detail (lines 56-61)
payment_detail(oid) ==
    PyDict(<<
        <<K_orderId, PyStr(oid)>>,
        <<<<"r", "e", "a", "s", "o", "n">>,
          PyStr(<<"I", "N", "S", "U", "F", "F", "I", "C", "I", "E", "N", "T", "_",
                  "F", "U", "N", "D", "S">>)>>,
        <<<<"s", "e", "v", "e", "r", "i", "t", "y">>,
          PyStr(<<"c", "r", "i", "t", "i", "c", "a", "l">>)>>,
        <<<<"r", "e", "t", "r", "y", "C", "o", "u", "n", "t">>, PyInt(2)>> >>)

\* A shipment payload whose orderId is derived from the second UUID.
shipment_detail_regenerated(oid, u) ==
    PyDict(<<
        <<K_orderId, PyStr(make_order_id(u))>>,
        <<<<"c", "a", "r", "r", "i", "e", "r">>, PyStr(<<"D", "H", "L">>)>>,
        <<K_trackingId, PyStr(make_tracking_id(u))>>,
        <<<<"e", "s", "t", "i", "m", "a", "t", "e", "d", "D", "e", "l", "i", "v", "e",
            "r", "y">>,
          PyStr(<<"2", "0", "2", "5", "-", "0", "9", "-", "1", "5">>)>> >>)

\* shipment_detail (lines 65-70); u is the UUID drawn for the tracking id.
shipment_detail(oid, u) ==
    PyDict(<<
        <<K_orderId, PyStr(oid)>>,
        <<<<"c", "a", "r", "r", "i", "e", "r">>, PyStr(<<"D", "H", "L">>)>>,
        <<K_trackingId, PyStr(make_tracking_id(u))>>,
        <<<<"e", "s", "t", "i", "m", "a", "t", "e", "d", "D", "e", "l", "i", "v", "e",
            "r", "y">>,
          PyStr(<<"2", "0", "2", "5", "-", "0", "9", "-", "1", "5">>)>> >>)

\* The (source, detail_type) of the three publish_event calls (lines 53, 62, 71).
SampleSources == <<"app.orders", "app.payments", "app.shipping">>
SampleTypes == <<"OrderCreated", "PaymentFailed", "ShipmentCreated">>

(***************************************************************************)
(* The external collaborator: events_client.put_events.  A call either     *)
(* returns a response or raises.  A response follows the PutEvents         *)
(* contract: one result per request entry, an EventId on the entries that  *)
(* were accepted, an ErrorCode on the others, and FailedEntryCount the     *)
(* number of the latter.  What it raises are botocore errors, all          *)
(* subclasses of Exception.                                                *)
(***************************************************************************)
EventIds == 1..NumEventIds

Accepted(id) == [EventId |-> id, ErrorCode |-> "none"]
Rejected == [EventId |-> 0, ErrorCode |-> "InternalFailure"]

\* The responses to a request of one entry.
Responses ==
    {[FailedEntryCount |-> 0, Entries |-> <<Accepted(id)>>] : id \in EventIds}
        \cup {[FailedEntryCount |-> 1, Entries |-> <<Rejected>>]}

NoResponse == [FailedEntryCount |-> 0, Entries |-> <<>>]

ClientExceptions == {"ClientError", "EndpointConnectionError"}
\* What json.dumps raises for a value it cannot serialize.
SerializationError == "TypeError"
\* The classes above are all subclasses of Exception.
ExceptionSubclasses == ClientExceptions \cup {SerializationError}

\* An except clause that handles botocore's ClientError only.
Catches_client_error_only(e) == e = "ClientError"

\* "except Exception" (line 32): whether the clause handles e.
Catches(e) == e \in ExceptionSubclasses

\* A threshold off by one: more than one failed entry.
HasFailedEntries_off_by_one(resp) == resp.FailedEntryCount > 1

\* response["FailedEntryCount"] > 0 (line 26)
HasFailedEntries(resp) == resp.FailedEntryCount > 0

\* An entry with Source and DetailType swapped.
MakeEntry_swapped(source, detail_type, detail, now) ==
    [EventBusName |-> BUS_NAME, Source |-> detail_type, DetailType |-> source,
     Detail |-> json_dumps(detail), Time |-> now]

\* The entry of the request (lines 17-23).
MakeEntry(source, detail_type, detail, now) ==
    [EventBusName |-> BUS_NAME, Source |-> source, DetailType |-> detail_type,
     Detail |-> json_dumps(detail), Time |-> now]

(***************************************************************************)
(* Arguments of a direct call of publish_event (the module imported and    *)
(* the function called by another program).                                *)
(***************************************************************************)
DirectSources == {"app.orders", "custom.app"}
DirectTypes == {"OrderCreated", "Ping"}
DirectDetails ==
    { PyDict(<<>>),
      PyDict(<< <<<<"n", "o", "t", "e">>,
                  PyStr(<<"s", "a", "y", " ", "\"", "h", "i", "\"", "\\", "n", "o", "w">>)>> >>),
      PyDict(<< <<<<"w", "h", "e", "n">>, PyObj>> >>),
      PyDict(<< <<<<"i", "t", "e", "m", "s">>, PyList(<<PyInt(1), PyObj>>)>> >>) }

(***************************************************************************)
(* State.                                                                  *)
(***************************************************************************)
VARIABLES
    pc,             \* where the program is
    caller,         \* "none", "script" (publish_sample_events) or "direct"
    idx,            \* number of the sample event being published (script)
    order_id,       \* the local order_id of publish_sample_events, <<>> before line 41
    details,        \* order_detail, payment_detail, shipment_detail, as built
    args,           \* the parameters of the running publish_event
    calls,          \* every put_events request issued: its Entries list
    inflight,       \* put_events calls issued and neither returned nor raised
    response,       \* the local response of publish_event
    exc,            \* the exception being handled, "none" if none
    outcomes,       \* per publish_event invocation, what its try block met
    output,         \* the lines printed to stdout
    exit_code,      \* <<>> while running, then <<status>> of the finished script
    clock,          \* datetime.utcnow(), as a logical clock
    run,            \* number of the current run
    prev_order_ids  \* order ids generated by the earlier runs

vars == <<pc, caller, idx, order_id, details, args, calls, inflight, response, exc,
          outcomes, output, exit_code, clock, run, prev_order_ids>>

NoArgs == [source |-> "none", detail_type |-> "none", detail |-> PyNone]
Running == <<>>

\* A printed line: what kind of line, the publish_event invocation that
\* printed it (0: publish_sample_events itself) and the values formatted in.
Line(kind, call, text) == [kind |-> kind, call |-> call, text |-> text]

Fresh ==
    /\ pc = "main"
    /\ caller = "none"
    /\ idx = 0
    /\ order_id = <<>>
    /\ details = <<>>
    /\ args = NoArgs
    /\ calls = <<>>
    /\ inflight = 0
    /\ response = NoResponse
    /\ exc = "none"
    /\ outcomes = <<>>
    /\ output = <<>>
    /\ exit_code = Running
    /\ clock = 0

\* The module is loaded: constants set, client constructed (lines 1-11).
Init ==
    /\ Fresh
    /\ run = 1
    /\ prev_order_ids = {}

(***************************************************************************)
(* publish_sample_events, up to the first submission (lines 37-43): the    *)
(* banner, the order id, its line.                                         *)
(***************************************************************************)
RunScript ==
    /\ pc = "main"
    /\ \E u \in Uuid4Values :
          /\ order_id' = make_order_id(u)
          /\ output' = output \o
                <<Line("banner", 0, <<BUS_NAME>>), Line("rule", 0, <<>>),
                  Line("order_id", 0, <<make_order_id(u)>>), Line("rule", 0, <<>>)>>
    /\ caller' = "script"
    /\ idx' = 1
    /\ pc' = "build"
    /\ UNCHANGED <<details, args, calls, inflight, response, exc, outcomes,
                   exit_code, clock, run, prev_order_ids>>

\* publish_event called by another program, with arguments of its choice.
DirectCall ==
    /\ pc = "main"
    /\ \E s \in DirectSources, t \in DirectTypes, d \in DirectDetails :
          args' = [source |-> s, detail_type |-> t, detail |-> d]
    /\ caller' = "direct"
    /\ pc' = "call"
    /\ UNCHANGED <<idx, order_id, details, calls, inflight, response, exc, outcomes,
                   output, exit_code, clock, run, prev_order_ids>>

\* Lines 46-53: order_detail is built and publish_event entered.
BuildOrderCreated ==
    /\ pc = "build" /\ idx = 1
    /\ details' = Append(details, order_detail(order_id))
    /\ args' = [source |-> SampleSources[1], detail_type |-> SampleTypes[1],
                detail |-> order_detail(order_id)]
    /\ pc' = "call"
    /\ UNCHANGED <<caller, idx, order_id, calls, inflight, response, exc, outcomes,
                   output, exit_code, clock, run, prev_order_ids>>

\* Lines 56-62: payment_detail is built and publish_event entered.
BuildPaymentFailed ==
    /\ pc = "build" /\ idx = 2
    /\ details' = Append(details, payment_detail(order_id))
    /\ args' = [source |-> SampleSources[2], detail_type |-> SampleTypes[2],
                detail |-> payment_detail(order_id)]
    /\ pc' = "call"
    /\ UNCHANGED <<caller, idx, order_id, calls, inflight, response, exc, outcomes,
                   output, exit_code, clock, run, prev_order_ids>>

\* Lines 65-71: shipment_detail is built, with a second UUID for the
\* tracking id, and publish_event entered.
BuildShipmentCreated ==
    /\ pc = "build" /\ idx = 3
    /\ \E u \in Uuid4Values :
          /\ details' = Append(details, shipment_detail(order_id, u))
          /\ args' = [source |-> SampleSources[3], detail_type |-> SampleTypes[3],
                      detail |-> shipment_detail(order_id, u)]
    /\ pc' = "call"
    /\ UNCHANGED <<caller, idx, order_id, calls, inflight, response, exc, outcomes,
                   output, exit_code, clock, run, prev_order_ids>>

(***************************************************************************)
(* publish_event (lines 13-33).                                            *)
(***************************************************************************)
Outcome(kind, failed, event_id, e) ==
    [kind |-> kind, failed |-> failed, event_id |-> event_id, exc |-> e]

\* put_events issued without waiting for its result: publish_event returns
\* at once.
CallPutEvents_no_wait ==
    /\ pc = "call"
    /\ Serializable(args.detail)
    /\ calls' = Append(calls,
          <<MakeEntry(args.source, args.detail_type, args.detail, clock + 1)>>)
    /\ inflight' = inflight + 1
    /\ clock' = clock + 1
    /\ outcomes' = Append(outcomes, Outcome("returned", 0, 0, "none"))
    /\ pc' = "return"
    /\ UNCHANGED <<caller, idx, order_id, details, args, response, exc, output,
                   exit_code, run, prev_order_ids>>

\* Lines 16-24: the entry is built (json.dumps of the detail, the time) and
\* put_events called; the call blocks.  json.dumps raises TypeError for a
\* detail it cannot serialize, and then put_events is not called.
CallPutEvents ==
    /\ pc = "call"
    /\ IF Serializable(args.detail)
       THEN /\ calls' = Append(calls,
                  <<MakeEntry(args.source, args.detail_type, args.detail, clock + 1)>>)
            /\ inflight' = inflight + 1
            /\ clock' = clock + 1
            /\ pc' = "wait"
            /\ UNCHANGED <<exc, outcomes, exit_code>>
       ELSE /\ outcomes' = Append(outcomes, Outcome("raised", 0, 0, SerializationError))
            /\ IF Catches(SerializationError)
               THEN exc' = SerializationError /\ pc' = "except" /\ UNCHANGED exit_code
               ELSE exc' = exc /\ pc' = "aborted" /\ exit_code' = <<1>>
            /\ UNCHANGED <<calls, inflight, clock>>
    /\ UNCHANGED <<caller, idx, order_id, details, args, response, output,
                   run, prev_order_ids>>

\* put_events returns a response (line 16).
PutEventsReturns ==
    /\ pc = "wait"
    /\ \E resp \in Responses :
          /\ response' = resp
          /\ outcomes' = Append(outcomes,
                Outcome("returned", resp.FailedEntryCount, resp.Entries[1].EventId, "none"))
    /\ inflight' = inflight - 1
    /\ pc' = "check"
    /\ UNCHANGED <<caller, idx, order_id, details, args, calls, exc, output,
                   exit_code, clock, run, prev_order_ids>>

\* put_events raises; "except Exception" (line 32) handles it, or it
\* propagates out of publish_event, its caller and the script.
PutEventsRaises ==
    /\ pc = "wait"
    /\ \E e \in ClientExceptions :
          /\ outcomes' = Append(outcomes, Outcome("raised", 0, 0, e))
          /\ IF Catches(e)
             THEN exc' = e /\ pc' = "except" /\ UNCHANGED exit_code
             ELSE exc' = exc /\ pc' = "aborted" /\ exit_code' = <<1>>
    /\ inflight' = inflight - 1
    /\ UNCHANGED <<caller, idx, order_id, details, args, calls, response, output,
                   clock, run, prev_order_ids>>

\* Lines 26-27: the failed entries are printed.
PrintFailed ==
    /\ pc = "check"
    /\ HasFailedEntries(response)
    /\ output' = Append(output, Line("failed", Len(outcomes), <<response.Entries>>))
    /\ pc' = "return"
    /\ UNCHANGED <<caller, idx, order_id, details, args, calls, inflight, response,
                   exc, outcomes, exit_code, clock, run, prev_order_ids>>

\* A confirmation without the line of the event id.
PrintPublished_no_event_id ==
    /\ pc = "check"
    /\ ~HasFailedEntries(response)
    /\ output' = Append(output,
          Line("published", Len(outcomes), <<args.detail_type, args.source>>))
    /\ pc' = "return"
    /\ UNCHANGED <<caller, idx, order_id, details, args, calls, inflight, response,
                   exc, outcomes, exit_code, clock, run, prev_order_ids>>

\* Lines 28-30: the confirmation and the event id of the first result.
PrintPublished ==
    /\ pc = "check"
    /\ ~HasFailedEntries(response)
    /\ output' = output \o
          <<Line("published", Len(outcomes), <<args.detail_type, args.source>>),
            Line("event_id", Len(outcomes), <<response.Entries[1].EventId>>)>>
    /\ pc' = "return"
    /\ UNCHANGED <<caller, idx, order_id, details, args, calls, inflight, response,
                   exc, outcomes, exit_code, clock, run, prev_order_ids>>

\* An exception handler that prints nothing.
PrintError_silent ==
    /\ pc = "except"
    /\ exc' = "none"
    /\ pc' = "return"
    /\ UNCHANGED <<caller, idx, order_id, details, args, calls, inflight, response,
                   outcomes, output, exit_code, clock, run, prev_order_ids>>

\* Lines 32-33: the handler prints str(e); the exception ends there.
PrintError ==
    /\ pc = "except"
    /\ output' = Append(output, Line("error", Len(outcomes), <<exc>>))
    /\ exc' = "none"
    /\ pc' = "return"
    /\ UNCHANGED <<caller, idx, order_id, details, args, calls, inflight, response,
                   outcomes, exit_code, clock, run, prev_order_ids>>

\* A return that gives up the remaining events after a call that did not
\* succeed.
Return_abort_on_failure ==
    /\ pc = "return"
    /\ LET last == outcomes[Len(outcomes)]
           bad == last.kind = "raised" \/ last.failed > 0
       IN  IF caller = "script" /\ idx < 3 /\ ~bad
           THEN idx' = idx + 1 /\ pc' = "build"
           ELSE idx' = idx /\ pc' = IF caller = "script" THEN "summary" ELSE "done"
    /\ args' = NoArgs
    /\ response' = NoResponse
    /\ UNCHANGED <<caller, order_id, details, calls, inflight, exc, outcomes, output,
                   exit_code, clock, run, prev_order_ids>>

\* publish_event returns (None) to its caller: publish_sample_events goes
\* on with the next event, or with the closing lines after the third.
Return ==
    /\ pc = "return"
    /\ IF caller = "script" /\ idx < 3
       THEN idx' = idx + 1 /\ pc' = "build"
       ELSE idx' = idx /\ pc' = IF caller = "script" THEN "summary" ELSE "done"
    /\ args' = NoArgs
    /\ response' = NoResponse
    /\ UNCHANGED <<caller, order_id, details, calls, inflight, exc, outcomes, output,
                   exit_code, clock, run, prev_order_ids>>

\* Lines 73-78, then the end of the script (line 81): exit status 0.
PrintSummary ==
    /\ pc = "summary"
    /\ output' = output \o
          <<Line("rule", 0, <<>>), Line("all_published", 0, <<>>),
            Line("expected_routing", 0, <<>>),
            Line("route", 0, <<"OrderCreated", "topic-orders + q-orders">>),
            Line("route", 0, <<"PaymentFailed", "topic-alerts">>),
            Line("route", 0, <<"ShipmentCreated", "q-shipments">>)>>
    /\ exit_code' = <<0>>
    /\ pc' = "done"
    /\ UNCHANGED <<caller, idx, order_id, details, args, calls, inflight, response,
                   exc, outcomes, clock, run, prev_order_ids>>

\* The script is run again, as a new process: nothing is kept but, for the
\* record, the order ids of the runs before.
NewRun ==
    /\ pc = "done" /\ caller = "script"
    /\ run < MaxRuns
    /\ run' = run + 1
    /\ prev_order_ids' = prev_order_ids \cup {order_id}
    /\ pc' = "main"
    /\ caller' = "none"
    /\ idx' = 0
    /\ order_id' = <<>>
    /\ details' = <<>>
    /\ args' = NoArgs
    /\ calls' = <<>>
    /\ inflight' = 0
    /\ response' = NoResponse
    /\ exc' = "none"
    /\ outcomes' = <<>>
    /\ output' = <<>>
    /\ exit_code' = Running
    /\ clock' = 0

Next ==
    \/ RunScript
    \/ DirectCall
    \/ BuildOrderCreated
    \/ BuildPaymentFailed
    \/ BuildShipmentCreated
    \/ CallPutEvents
    \/ PutEventsReturns
    \/ PutEventsRaises
    \/ PrintFailed
    \/ PrintPublished
    \/ PrintError
    \/ Return
    \/ PrintSummary

Spec == Init /\ [][Next]_vars

\* Every started call and run goes on to its end: the program is one
\* thread and nothing in it waits but put_events, which returns or raises.
FairSpec == Spec /\ WF_vars(Next)

NextRuns == Next \/ NewRun

\* Successive runs of the script.
SpecRuns == Init /\ [][NextRuns]_vars

(***************************************************************************)
(* Reading the output.                                                     *)
(***************************************************************************)
OutcomeKinds == {"published", "failed", "error"}

\* The lines of a kind printed by publish_event invocation n.
LinesOf(n, kind) == SelectSeq(output, LAMBDA l : l.call = n /\ l.kind = kind)

\* Every line printed by publish_event invocation n.
AllLinesOf(n) == SelectSeq(output, LAMBDA l : l.call = n)

LinesOfKind(kind) == SelectSeq(output, LAMBDA l : l.kind = kind)

\* Invocation n of publish_event has left its try statement.
Returned(n) == n < Len(outcomes) \/ (n = Len(outcomes) /\ pc \notin {"check", "except"})

Succeeded(o) == o.kind = "returned" /\ o.failed = 0

(***************************************************************************)
(* C1.  Whatever the outcomes of the submissions, a run of                 *)
(* publish_sample_events issues exactly three put_events calls, in the     *)
(* order OrderCreated, PaymentFailed, ShipmentCreated: the calls issued so *)
(* far are always the first ones of that list, once each, and when the run *)
(* reaches its closing lines all three have been issued.                   *)
(***************************************************************************)
C1_ThreeCallsInOrder ==
    caller = "script" =>
        /\ Len(calls) <= 3
        /\ \A i \in DOMAIN calls :
              calls[i][1].DetailType =
                  <<"OrderCreated", "PaymentFailed", "ShipmentCreated">>[i]
        /\ pc \in {"summary", "done"} => Len(calls) = 3

\* A finished run whose first call raised and whose second had a failed entry.
C1_Witness ==
    /\ caller = "script" /\ pc = "done"
    /\ outcomes[1].kind = "raised"
    /\ outcomes[2].failed > 0
    /\ Len(calls) = 3

(***************************************************************************)
(* C2.  An error raised in the try block of publish_event (by json.dumps   *)
(* or by put_events) is caught there: no exception leaves publish_event    *)
(* (the program is never aborted), and once the invocation has left its    *)
(* try statement exactly one error line, with the message of that error,   *)
(* and no other outcome line has been printed for it.                      *)
(***************************************************************************)
C2_ErrorsCaughtAndReported ==
    /\ pc # "aborted"
    /\ exit_code # <<1>>
    /\ \A n \in DOMAIN outcomes :
          (outcomes[n].kind = "raised" /\ Returned(n)) =>
              /\ Len(LinesOf(n, "error")) = 1
              /\ LinesOf(n, "error")[1].text = <<outcomes[n].exc>>
              /\ Len(AllLinesOf(n)) = 1

\* publish_event has returned from a call whose detail json.dumps rejected.
C2_Witness ==
    /\ caller = "direct" /\ pc = "done"
    /\ outcomes[1].kind = "raised" /\ outcomes[1].exc = "TypeError"
    /\ calls = <<>>
    /\ Len(LinesOfKind("error")) = 1

(***************************************************************************)
(* C3.  When the response reports zero failed entries, publish_event       *)
(* prints the confirmation (detail type, source) and the event id the      *)
(* service assigned in that response, and neither a failure nor an error   *)
(* line; a finished run in which every response reported zero failed       *)
(* entries has printed exactly three confirmations, for OrderCreated,      *)
(* PaymentFailed and ShipmentCreated in that order.                        *)
(***************************************************************************)
C3_SuccessConfirmed ==
    /\ \A n \in DOMAIN outcomes :
          (Succeeded(outcomes[n]) /\ Returned(n)) =>
              /\ Len(AllLinesOf(n)) = 2
              /\ AllLinesOf(n)[1].kind = "published"
              /\ AllLinesOf(n)[1].text = <<calls[n][1].DetailType, calls[n][1].Source>>
              /\ AllLinesOf(n)[2].kind = "event_id"
              /\ AllLinesOf(n)[2].text = <<outcomes[n].event_id>>
    /\ (/\ caller = "script" /\ pc = "done"
        /\ \A n \in DOMAIN outcomes : Succeeded(outcomes[n])) =>
              /\ [i \in 1..Len(LinesOfKind("published")) |->
                     LinesOfKind("published")[i].text[1]]
                   = <<"OrderCreated", "PaymentFailed", "ShipmentCreated">>
              /\ [i \in 1..Len(LinesOfKind("published")) |->
                     LinesOfKind("published")[i].call] = <<1, 2, 3>>
              /\ LinesOfKind("failed") = <<>>
              /\ LinesOfKind("error") = <<>>

\* A finished run of three accepted events, the first two with different ids.
C3_Witness ==
    /\ caller = "script" /\ pc = "done"
    /\ \A n \in 1..3 : Succeeded(outcomes[n])
    /\ outcomes[1].event_id # outcomes[2].event_id
    /\ Len(LinesOfKind("event_id")) = 3

(***************************************************************************)
(* C4.  In a run, for every i in 1..3: a failure line is printed for the   *)
(* i-th event exactly when the response to the i-th call reports a failed  *)
(* entry count above 0; then it is the only line of that call (no          *)
(* confirmation).  So the failure lines of a finished run are as many as   *)
(* the calls with a failed entry count above 0.                            *)
(***************************************************************************)
C4_FailureLines ==
    caller = "script" =>
        /\ \A n \in DOMAIN outcomes :
              Returned(n) =>
                  /\ (LinesOf(n, "failed") # <<>>)
                        <=> (outcomes[n].kind = "returned" /\ outcomes[n].failed > 0)
                  /\ LinesOf(n, "failed") # <<>> =>
                        /\ Len(AllLinesOf(n)) = 1
                        /\ LinesOf(n, "published") = <<>>
        /\ pc = "done" =>
              Len(LinesOfKind("failed")) =
                  Cardinality({n \in DOMAIN outcomes :
                      outcomes[n].kind = "returned" /\ outcomes[n].failed > 0})

\* A finished run in which the second call alone had a failed entry.
C4_Witness ==
    /\ caller = "script" /\ pc = "done"
    /\ Succeeded(outcomes[1]) /\ outcomes[2].failed = 1 /\ Succeeded(outcomes[3])
    /\ Len(LinesOfKind("failed")) = 1
    /\ LinesOfKind("failed")[1].call = 2

(***************************************************************************)
(* C5.  In a run the order id is generated before the first submission,    *)
(* the orderId of the detail submitted with each of the three events is    *)
(* that order id, and the order id, once generated, never changes,         *)
(* whatever the calls return or raise.                                     *)
(***************************************************************************)
C5_SameOrderIdSubmitted ==
    caller = "script" =>
        /\ calls # <<>> => order_id # <<>>
        /\ \A i \in DOMAIN calls :
              LET r == json_loads(calls[i][1].Detail)
              IN  /\ r.ok
                  /\ r.val.t = "dict"
                  /\ dict_has(r.val, <<"o", "r", "d", "e", "r", "I", "d">>)
                  /\ PyEq(dict_get(r.val, <<"o", "r", "d", "e", "r", "I", "d">>),
                          PyStr(order_id))

C5_OrderIdKept == order_id # <<>> => order_id' = order_id

C5_OneOrderId == [](C5_SameOrderIdSubmitted) /\ [][C5_OrderIdKept]_vars

\* All three events submitted, after a first call that raised and a second
\* with a failed entry, the tracking id drawn from another UUID.
C5_Witness ==
    /\ caller = "script" /\ Len(calls) = 3
    /\ outcomes[1].kind = "raised" /\ outcomes[2].failed > 0
    /\ SubSeq(dict_get(details[3], K_trackingId).v, 5, 12) # SubSeq(order_id, 5, 12)

(***************************************************************************)
(* C6.  Given that every put_events call returns or raises, every run of   *)
(* the script ends completed: it reaches its end with exit status 0,       *)
(* having printed the closing summary exactly once, after the outcome line *)
(* of the third call; before the end no summary is printed and no run is   *)
(* aborted.                                                                *)
(***************************************************************************)
C6_Completed ==
    /\ pc # "aborted"
    /\ caller = "script" =>
          /\ pc # "done" =>
                /\ exit_code = <<>>
                /\ LinesOfKind("expected_routing") = <<>>
          /\ pc = "done" =>
                /\ exit_code = <<0>>
                /\ Len(LinesOfKind("expected_routing")) = 1
                /\ Len(LinesOfKind("route")) = 3
                /\ \E i \in DOMAIN output :
                      /\ output[i].call = 3 /\ output[i].kind \in OutcomeKinds
                      /\ \A j \in DOMAIN output :
                            output[j].kind \in {"all_published", "expected_routing", "route"}
                                => i < j

C6_RunCompletes ==
    /\ [](C6_Completed)
    /\ (caller = "script") ~> (pc = "done" /\ exit_code = <<0>>)

\* A completed run in which no submission succeeded: two raised, one failed.
C6_Witness ==
    /\ caller = "script" /\ pc = "done" /\ exit_code = <<0>>
    /\ outcomes[1].kind = "raised" /\ outcomes[2].failed > 0 /\ outcomes[3].kind = "raised"
    /\ output[Len(output)].kind = "route"

(***************************************************************************)
(* C7.  Every put_events call carries exactly one entry; its bus name is   *)
(* "ecom-bus", its Source and DetailType are the arguments publish_event   *)
(* was given and its Detail is the serialization of the detail argument;   *)
(* in a run this holds for the three submissions, with the sources, types  *)
(* and details of the three sample events.                                 *)
(***************************************************************************)
C7_EntryAsGiven ==
    /\ \A i \in DOMAIN calls :
          /\ Len(calls[i]) = 1
          /\ calls[i][1].EventBusName = "ecom-bus"
    /\ pc \in {"wait", "check", "except"} /\ calls # <<>> =>
          LET e == calls[Len(calls)][1]
          IN  /\ e.Source = args.source
              /\ e.DetailType = args.detail_type
              /\ e.Detail = json_dumps(args.detail)
    /\ caller = "script" =>
          \A i \in DOMAIN calls :
              /\ calls[i][1].Source = <<"app.orders", "app.payments", "app.shipping">>[i]
              /\ calls[i][1].DetailType =
                    <<"OrderCreated", "PaymentFailed", "ShipmentCreated">>[i]
              /\ calls[i][1].Detail = json_dumps(details[i])

\* The third submission of a run is in flight.
C7_Witness ==
    /\ caller = "script" /\ pc = "wait" /\ Len(calls) = 3
    /\ calls[3][1].Source = "app.shipping"

(***************************************************************************)
(* C8.  Submissions are sequential: at most one put_events call is in      *)
(* flight; when call k+1 has been issued, call k has returned or raised    *)
(* and its outcome line is printed; the outcome lines are printed in the   *)
(* order of the calls.                                                     *)
(***************************************************************************)
C8_Sequential ==
    /\ inflight <= 1
    /\ \A k \in 1..(Len(calls) - 1) :
          /\ k \in DOMAIN outcomes
          /\ \E i \in DOMAIN output :
                output[i].call = k /\ output[i].kind \in OutcomeKinds
    /\ \A i, j \in DOMAIN output :
          (/\ i < j
           /\ output[i].kind \in OutcomeKinds
           /\ output[j].kind \in OutcomeKinds) => output[i].call < output[j].call

\* The third call in flight, the first two settled in different ways.
C8_Witness ==
    /\ caller = "script" /\ inflight = 1 /\ Len(calls) = 3
    /\ Succeeded(outcomes[1]) /\ outcomes[2].kind = "raised"

(***************************************************************************)
(* C9.  The order id is "ORD-" followed by exactly 8 characters, each an   *)
(* uppercase hexadecimal digit: in every run, and for every pair of        *)
(* nibbles the UUID can be made of.  (Two runs draw their UUIDs            *)
(* independently, so their order ids can be equal: C9_DiffersAcrossRuns.)  *)
(***************************************************************************)
WellFormedOrderId(oid) ==
    /\ Len(oid) = 12
    /\ SubSeq(oid, 1, 4) = <<"O", "R", "D", "-">>
    /\ \A i \in 5..12 : oid[i] \in UpperHexChars

AllSeedsWellFormed ==
    \A a \in 0..15, b \in 0..15 : WellFormedOrderId(make_order_id(MakeUuid(<<a, b>>)))

C9_OrderIdForm ==
    /\ AllSeedsWellFormed
    /\ order_id # <<>> => WellFormedOrderId(order_id)

\* A second run whose order id has a letter among its hexadecimal digits.
C9_Witness ==
    /\ run = 2 /\ order_id # <<>>
    /\ order_id[5] \in {"A", "B", "C", "D", "E", "F"}

\* The claim as stated: well formed, and different from the order id of
\* every earlier run.
C9_DiffersAcrossRuns ==
    order_id # <<>> => (WellFormedOrderId(order_id) /\ order_id \notin prev_order_ids)

(***************************************************************************)
(* C10.  For each of the three sample events the Detail submitted is valid *)
(* JSON and json.loads of it equals the detail mapping built by            *)
(* publish_sample_events (the nested items list and the numbers            *)
(* included); publish_event leaves the detail it is given, and the         *)
(* mappings of its caller, as they are.                                    *)
(***************************************************************************)
C10_RoundTrip ==
    caller = "script" =>
        \A i \in DOMAIN calls :
            LET r == json_loads(calls[i][1].Detail)
            IN  /\ r.ok
                /\ PyEq(r.val, details[i])

C10_DetailKept ==
    /\ \A i \in DOMAIN details : i \in DOMAIN details' /\ details'[i] = details[i]
    /\ pc \in {"call", "wait", "check", "except"} => args'.detail = args.detail

C10_JsonRoundTrip == [](C10_RoundTrip) /\ [][C10_DetailKept]_vars

\* The three details submitted; the first parses back to value 149.9, a
\* one-element items list and quantity 2.
C10_Witness ==
    /\ caller = "script" /\ Len(calls) = 3
    /\ LET d == json_loads(calls[1][1].Detail).val
       IN  /\ dict_get(d, <<"v", "a", "l", "u", "e">>) = PyFloat(1499, 1)
           /\ Len(dict_get(d, <<"i", "t", "e", "m", "s">>).v) = 1
           /\ dict_get(dict_get(d, <<"i", "t", "e", "m", "s">>).v[1],
                       <<"q", "u", "a", "n", "t", "i", "t", "y">>) = PyInt(2)

====
